---------------------------- MODULE Spec2Model ----------------------------
(***************************************************************************)
(* A model of the reaction enumerator, the reaction library (the genome)   *)
(* and the evolving-libraries engine of csindy-library-evolution.          *)
(*                                                                         *)
(*   SpecEnum      one ReactionEnumerator: generator(), get_number() and   *)
(*                 the retry loop of get_random().                         *)
(*   SpecLib       two ReactionLibrary objects under crossover, mutate,    *)
(*                 clean_duplicate_reactions and clean_slow_reactions.     *)
(*   SpecFixate    one call of fixate_reactions on a library.              *)
(*   SpecClean     one call of clean_duplicate_reactions, step by step;    *)
(*                 SpecCleanFair is SpecClean with fair random draws.      *)
(*   Spec          the EvolvingLibraries engine: construction and step.    *)
(*   SpecOracle    the engine with a deterministic fitness oracle.         *)
(*   SpecDriver    optimize() driving one engine, with the signal handler  *)
(*                 of GracefulKiller and the progress file.                *)
(*   SpecPool      one call of step with the workers of pool.map           *)
(*                 finishing in any order.                                 *)
(*   SpecReaction  __eq__ and equal_structure of two Reaction objects.     *)
(*   SpecSetters   one Reaction under assignments to reactands, products.  *)
(***************************************************************************)
EXTENDS Integers, Sequences, FiniteSets, TLC

VARIABLES
  enumerator,   \* SpecEnum: the ReactionEnumerator under test
  call,         \* SpecEnum: "idle", or "get_random" while its loop runs
  chosen,       \* SpecEnum: <<l_chosen, r_chosen>> of the running get_random
  out,          \* SpecEnum: what the last finished call produced
  libs,         \* the ReactionLibrary objects under test
  last_call,    \* the last library call and what it did, or where it is
  args,         \* Spec: the arguments EvolvingLibraries was constructed with
  pc,           \* Spec: "new", "exit", "assert", "ready", "raised", or inside step
  pool,         \* Spec: whether the worker pool has been created
  heap,         \* Spec: the ReactionLibrary objects alive, by reference
  population,   \* Spec: self.population, references
  fittest,      \* Spec: self.fittest, a reference (0 is None)
  overall_fittest,        \* Spec: self.overall_fittest, a reference
  overall_fittest_value,  \* Spec: self.overall_fittest_value
  overall_fittest_norm,   \* Spec: self.overall_fittest_norm
  parents,      \* Spec: the parents of the running step, references
  new_pop,      \* Spec: new_pop of the running step, references
  best_of_gen,  \* Spec: observed, the best evaluation of the last generation
  best_so_far,  \* Spec: observed, the best evaluation of all generations
  finished,     \* pool.map: the tasks whose worker has finished, in that order
  map_returned, \* step: fitness_list when pool.map has returned it
  opt_args,     \* optimize: nsteps, fitness_thresh and killer of the call
  opt_pc,       \* optimize: the position of the driver
  s,            \* optimize: the loop variable
  curr_fittest, \* optimize: the first value the last step returned
  file,         \* optimize: the rows of the file output_filename, or None
  file_at_start,  \* observed: what that file was when optimize was called
  kill_now,     \* GracefulKiller.kill_now
  kill_gen,     \* observed: the generation that ran when kill_now was set
  kill_at,      \* observed: where step was (pc) when kill_now was set
  step_calls,   \* observed: the arguments of the calls of step, in order
  operands,     \* the Reaction objects compared or assigned to
  verdict       \* SpecReaction: the comparison made and what it returned

enumVars == <<enumerator, call, chosen, out>>
libVars == <<libs, last_call>>
engVars ==
  <<args, pc, pool, heap, population, fittest, overall_fittest,
    overall_fittest_value, overall_fittest_norm, parents, new_pop,
    best_of_gen, best_so_far>>
drvVars ==
  <<finished, map_returned, opt_args, opt_pc, s, curr_fittest, file,
    file_at_start,
    kill_now, kill_gen, kill_at, step_calls>>
reacVars == <<operands, verdict>>
vars == <<enumVars, libVars, engVars, drvVars, reacVars>>

(***************************************************************************)
(* Bounds of the model.                                                    *)
(***************************************************************************)
MaxSpecies == 2      \* species counts 0..MaxSpecies of the enumerators
MaxOrder == 2        \* arity bounds 0..MaxOrder of the enumerators
MaxLen == 2          \* explicit reaction lists of length 0..MaxLen

(***************************************************************************)
(* Program constants.                                                      *)
(***************************************************************************)
DefaultMaxStoichiometry == 99     \* ReactionEnumerator.__init__ default
EngineMaxStoichiometry == 1       \* the cap EvolvingLibraries passes

None == "None"

\* The value of an enumerator attribute that holds None.
NoEnumerator == [none |-> TRUE]

Range(xs) == {xs[i] : i \in DOMAIN xs}

\* A Python list built by a comprehension: the elements, computed once.
list(f) == f \o <<>>

(***************************************************************************)
(* Reaction (reaction.py).  A reaction is the record of the four fields    *)
(* __eq__ reads; reactands and products are Python lists, so sequences.    *)
(***************************************************************************)
Reaction(reactands, products, rate, num_species) ==
  [reactands |-> reactands, products |-> products, rate |-> rate,
   num_species |-> num_species]

\* Reaction.equal_structure: list equality of both sides.
equal_structure(a, b) ==
  a.reactands = b.reactands /\ a.products = b.products

\* Reaction.__eq__; Reaction_eq_any_species is __eq__ without its test of
\* num_species.
Reaction_eq_any_species(a, b) == equal_structure(a, b) /\ a.rate = b.rate
Reaction_eq(a, b) ==
  equal_structure(a, b) /\ a.rate = b.rate /\ a.num_species = b.num_species

\* Number of occurrences of species sp in one side of a reaction.
RECURSIVE CountOf(_, _)
CountOf(side, sp) ==
  IF side = <<>> THEN 0
  ELSE (IF Head(side) = sp THEN 1 ELSE 0) + CountOf(Tail(side), sp)

\* full_hist: the histogram of a side over the species 0..num-1.
full_hist(side, num) == [sp \in 0..(num - 1) |-> CountOf(side, sp)]

(***************************************************************************)
(* ReactionEnumerator (reaction_enumerator.py).                            *)
(***************************************************************************)
\* itertools.combinations_with_replacement(range(first, num), n), in the
\* lexicographic order itertools emits: non-decreasing tuples.
RECURSIVE combinations_with_replacement(_, _, _)
combinations_with_replacement(first, num, n) ==
  IF n = 0 THEN << <<>> >>
  ELSE IF first >= num THEN <<>>
  ELSE LET tails == combinations_with_replacement(first, num, n - 1)
           here == [i \in 1..Len(tails) |-> <<first>> \o tails[i]]
       IN  here \o combinations_with_replacement(first + 1, num, n)

\* The loop of _get_one_side over n = from..max_order.
RECURSIVE one_side_from(_, _, _)
one_side_from(num_species, from, max_order) ==
  IF from > max_order THEN <<>>
  ELSE combinations_with_replacement(0, num_species, from)
         \o one_side_from(num_species, from + 1, max_order)

\* ReactionEnumerator._get_one_side: all sides of 1..max_order species, then
\* the empty side.  The cache only memoises this value.
get_one_side(e, max_order) ==
  Append(one_side_from(e.num_species, 1, max_order), <<>>)

\* ReactionEnumerator._filter_nochange: positional comparison.
filter_nochange_always(left, right) == TRUE
filter_nochange(left, right) == left # right

\* ReactionEnumerator._filter_blacklisted
filter_blacklisted(e, left, right) ==
  \A i \in DOMAIN e.reaction_blacklist :
    e.reaction_blacklist[i] # <<left, right>>

Abs(x) == IF x < 0 THEN -x ELSE x

\* ReactionEnumerator._filter_stoichiometry
filter_stoichiometry(e, left, right) ==
  LET hist_l == full_hist(left, e.num_species)
      hist_r == full_hist(right, e.num_species)
  IN  ~ \E sp \in 0..(e.num_species - 1) :
          Abs(hist_r[sp] - hist_l[sp]) > e.max_stoichiometry

\* One side of ReactionEnumerator._filter_subgroups.
side_in_subgroups(e, side) ==
  \A idx1 \in DOMAIN side : \A idx2 \in DOMAIN side :
    idx1 < idx2 =>
      \A g \in DOMAIN e.subgroups :
        LET sg == e.subgroups[g]
        IN  ~ ((side[idx1] \in sg /\ side[idx2] \notin sg)
               \/ (side[idx1] \notin sg /\ side[idx2] \in sg))

\* ReactionEnumerator._filter_subgroups
filter_subgroups(e, left, right) ==
  side_in_subgroups(e, left) /\ side_in_subgroups(e, right)

\* ReactionEnumerator._to_reaction: rate 0.0.
to_reaction(e, left, right) == Reaction(left, right, 0, e.num_species)

\* The filter chain of generator().
generator_keeps(e, left, right) ==
  /\ filter_nochange(left, right)
  /\ filter_blacklisted(e, left, right)
  /\ filter_stoichiometry(e, left, right)
  /\ (Len(e.subgroups) > 0 => filter_subgroups(e, left, right))

\* ReactionEnumerator.generator: the filtered product of the two sides, left
\* side outermost, as reactions.  shuffle only permutes this list.
generator(e) ==
  LET left == get_one_side(e, e.max_num_left)
      right == get_one_side(e, e.max_num_right)
      n == Len(right)
      pairs == [k \in 1..(Len(left) * n) |->
                  <<left[((k - 1) \div n) + 1], right[((k - 1) % n) + 1]>>]
      Keeps(p) == generator_keeps(e, p[1], p[2])
      res == SelectSeq(pairs, Keeps)
  IN  [k \in 1..Len(res) |-> to_reaction(e, res[k][1], res[k][2])]

\* ReactionEnumerator.get_number
get_number(e, consider_blacklisted) ==
  LET left == Len(get_one_side(e, e.max_num_left))
      right == Len(get_one_side(e, e.max_num_right))
  IN  IF ~ consider_blacklisted
      THEN left * right - left
      ELSE left * right - left - Len(e.reaction_blacklist)

\* The condition of the while loop of get_random: the draw is rejected.
\* get_random_retries_but_blacklisted is the condition without the test of
\* the blacklist.
get_random_retries_but_blacklisted(e, l_chosen, r_chosen) ==
  \/ ~ filter_nochange(l_chosen, r_chosen)
  \/ ~ filter_stoichiometry(e, l_chosen, r_chosen)
  \/ (Len(e.subgroups) > 0 /\ ~ filter_subgroups(e, l_chosen, r_chosen))
get_random_retries(e, l_chosen, r_chosen) ==
  \/ ~ filter_nochange(l_chosen, r_chosen)
  \/ ~ filter_blacklisted(e, l_chosen, r_chosen)
  \/ ~ filter_stoichiometry(e, l_chosen, r_chosen)
  \/ (Len(e.subgroups) > 0 /\ ~ filter_subgroups(e, l_chosen, r_chosen))

\* The draws choice(left), choice(right) can make.
Draws(e) ==
  Range(get_one_side(e, e.max_num_left))
    \X Range(get_one_side(e, e.max_num_right))

\* ReactionEnumerator.get_random as a call: the reactions its loop can end
\* with.  The call returns one of them; when there is none it never returns.
get_random(e) ==
  {to_reaction(e, d[1], d[2]) :
     d \in {d \in Draws(e) : ~ get_random_retries(e, d[1], d[2])}}


(***************************************************************************)
(* SpecEnum: one enumerator, generator() and get_random().                 *)
(***************************************************************************)
\* reaction_blacklist as __init__ stores it: (reactands, products) pairs of
\* the blacklisted reactions, in the order the caller wrote the indices.
Blacklists ==
  { <<>>, << << <<0>>, <<>> >> >>, << << <<1, 0>>, <<0>> >> >> }

Subgroups == { <<>>, << {0}, {1} >> }

\* ReactionEnumerator.__init__
ReactionEnumerator(num_species, max_left, max_right, max_st, blacklist, sg) ==
  [num_species |-> num_species, max_num_left |-> max_left,
   max_num_right |-> max_right, max_stoichiometry |-> max_st,
   reaction_blacklist |-> blacklist, subgroups |-> sg]

Enumerators ==
  { ReactionEnumerator(ns, ml, mr, st, bl, sg) :
      ns \in 0..MaxSpecies, ml \in 0..MaxOrder, mr \in 0..MaxOrder,
      st \in {EngineMaxStoichiometry, DefaultMaxStoichiometry},
      bl \in Blacklists, sg \in Subgroups }

NoOutput == [op |-> "none", value |-> <<>>]

\* The library part of the state while an enumerator is examined, and the
\* enumerator part while libraries are.
LibIdle == libs = <<>> /\ last_call = None
EngineIdle ==
  /\ args = None /\ pc = "none" /\ pool = FALSE /\ heap = <<>>
  /\ population = <<>> /\ fittest = 0 /\ overall_fittest = 0
  /\ overall_fittest_value = 0 /\ overall_fittest_norm = 0
  /\ parents = <<>> /\ new_pop = <<>>
  /\ best_of_gen = None /\ best_so_far = None
EnumIdle ==
  /\ enumerator = NoEnumerator /\ call = "idle" /\ chosen = None /\ out = NoOutput
NoVerdict == [op |-> "none"]
ReactionIdle == operands = <<>> /\ verdict = NoVerdict
DriverIdle ==
  /\ finished = <<>> /\ map_returned = <<>> /\ opt_args = None
  /\ opt_pc = "none" /\ s = 0
  /\ curr_fittest = 0 /\ file = None /\ file_at_start = None
  /\ kill_now = FALSE /\ kill_gen = -1 /\ kill_at = None
  /\ step_calls = <<>>

InitEnum ==
  /\ enumerator \in Enumerators
  /\ call = "idle"
  /\ chosen = None
  /\ out = NoOutput
  /\ LibIdle
  /\ EngineIdle
  /\ DriverIdle
  /\ ReactionIdle

\* list(enumerator.generator())
CallGenerator ==
  /\ call = "idle"
  /\ out' = [op |-> "generator", value |-> generator(enumerator)]
  /\ UNCHANGED <<enumerator, call, chosen, libVars, engVars, drvVars, reacVars>>

\* get_random, up to its first draw.
GetRandomEnter ==
  /\ call = "idle"
  /\ \E d \in Draws(enumerator) : chosen' = d
  /\ call' = "get_random"
  /\ out' = NoOutput
  /\ UNCHANGED <<enumerator, libVars, engVars, drvVars, reacVars>>

\* get_random: one more turn of the while loop.
GetRandomRetry ==
  /\ call = "get_random"
  /\ get_random_retries(enumerator, chosen[1], chosen[2])
  /\ \E d \in Draws(enumerator) : chosen' = d
  /\ UNCHANGED <<enumerator, call, out, libVars, engVars, drvVars, reacVars>>

\* get_random: the loop ends and the reaction is returned.
GetRandomReturn ==
  /\ call = "get_random"
  /\ ~ get_random_retries(enumerator, chosen[1], chosen[2])
  /\ out' = [op |-> "get_random",
             value |-> <<to_reaction(enumerator, chosen[1], chosen[2])>>]
  /\ call' = "idle"
  /\ chosen' = None
  /\ UNCHANGED <<enumerator, libVars, engVars, drvVars, reacVars>>

\* enumerator.get_number(consider_blacklisted); it yields no reaction, and
\* the count it returns is kept in number.
GetNumber ==
  /\ call = "idle"
  /\ \E consider_blacklisted \in BOOLEAN :
       out' = [op |-> "get_number", value |-> <<>>,
               number |-> get_number(enumerator, consider_blacklisted),
               consider_blacklisted |-> consider_blacklisted]
  /\ UNCHANGED <<enumerator, call, chosen, libVars, engVars, drvVars,
                 reacVars>>

NextEnum ==
  \/ CallGenerator
  \/ GetNumber
  \/ GetRandomEnter
  \/ GetRandomRetry
  \/ GetRandomReturn

SpecEnum == InitEnum /\ [][NextEnum]_vars

(***************************************************************************)
(* Claims about the enumerator.                                            *)
(***************************************************************************)
\* The net-change vector of a reaction: histogram(products) minus
\* histogram(reactands), as Reaction._update_change computes it.
change(r) ==
  [sp \in 0..(r.num_species - 1) |->
     full_hist(r.products, r.num_species)[sp]
       - full_hist(r.reactands, r.num_species)[sp]]

SameMultiset(r) ==
  /\ Len(r.reactands) = Len(r.products)
  /\ \A sp \in Range(r.reactands) \cup Range(r.products) :
       CountOf(r.reactands, sp) = CountOf(r.products, sp)

\* C8: no reaction that generator() yields or get_random() returns has its
\* reactand multiset equal to its product multiset; each has a species whose
\* net change is not zero.
C8_NoNoOpReaction ==
  \A k \in DOMAIN out.value :
    /\ ~ SameMultiset(out.value[k])
    /\ \E sp \in DOMAIN change(out.value[k]) : change(out.value[k])[sp] # 0

\* get_random() has returned a reaction whose two sides hold the same
\* species and differ only in multiplicity.
C8_Witness ==
  /\ out.op = "get_random"
  /\ Len(out.value) = 1
  /\ out.value[1].reactands = <<1>>
  /\ out.value[1].products = <<1, 1>>

\* C10: an enumerator none of whose pairs passes the filters is reported as
\* a configuration error; the retry loop of get_random() is never running
\* with no draw that can end it.
C10_EmptySpaceIsReported ==
  call = "get_random" => get_random(enumerator) # {}

\* C25: get_random() and generator() define one reaction space: what
\* get_random() has returned generator() yields, what generator() has
\* yielded get_random() can return, and generator() yields nothing twice.
C25_SameReactionSpace ==
  /\ out.op = "get_random" =>
       \E yielded \in {Range(generator(enumerator))} :
         out.value[1] \in yielded
  /\ out.op = "generator" =>
       /\ \E returned \in {get_random(enumerator)} :
            \A k \in DOMAIN out.value : out.value[k] \in returned
       /\ \A j, k \in DOMAIN out.value :
            j # k => out.value[j] # out.value[k]

\* get_random() has returned from an enumerator with an effective
\* blacklist, a stoichiometry cap and subgroups, and two species.
C25_Witness ==
  /\ out.op = "get_random"
  /\ enumerator.reaction_blacklist = << << <<0>>, <<>> >> >>
  /\ enumerator.max_stoichiometry = EngineMaxStoichiometry
  /\ Len(enumerator.subgroups) > 0
  /\ enumerator.num_species = 2
  /\ Len(generator(enumerator)) > 1

\* C28 as claimed: a reaction get_random() returns, and so a mutable
\* reaction of a genome the engine creates, never has the reactands and the
\* products of a blacklisted reaction, each as a multiset, in whatever order
\* the blacklisted reaction lists its species.
C28_FixatedNeverDrawn ==
  out.op = "get_random" =>
    \A i \in DOMAIN enumerator.reaction_blacklist :
      ~ /\ full_hist(out.value[1].reactands, enumerator.num_species)
             = full_hist(enumerator.reaction_blacklist[i][1],
                         enumerator.num_species)
        /\ full_hist(out.value[1].products, enumerator.num_species)
             = full_hist(enumerator.reaction_blacklist[i][2],
                         enumerator.num_species)

\* C19 as claimed: whatever the configuration, get_number() is at least the
\* number of reactions generator() yields.
C19_NumberBoundsGenerator ==
  (out.op = "get_number" /\ ~ out.consider_blacklisted)
    => out.number >= Len(generator(enumerator))

(***************************************************************************)
(* ReactionLibrary (reaction_library.py).  A library is the record of its  *)
(* fixated_reactions, non_fixated_reactions, num_species and enumerator    *)
(* (NoEnumerator when it has none).                                                *)
(***************************************************************************)
\* The elements set(xs) keeps: the first of every class of __eq__ (equal
\* reactions hash alike, so __eq__ alone decides).
set_of(xs) ==
  SelectSeq([i \in DOMAIN xs |-> <<i, xs[i]>>],
            LAMBDA p : \A j \in 1..(p[1] - 1) : ~ Reaction_eq(xs[j], p[2]))

\* list(set(xs)): the kept elements in the iteration order of the set,
\* which is any order.
list_of_set(xs) ==
  LET kept == set_of(xs)
  IN  { [i \in 1..Len(kept) |-> kept[p[i]][2]] :
          p \in Permutations(1..Len(kept)) }

\* All lists of n draws of get_random.
drawn_lists(e, n) == [1..n -> get_random(e)]

\* The lists clean_duplicate_reactions can leave in non_fixated_reactions:
\* duplicates removed and, with an enumerator, refilled to the length before
\* and cleaned again.  A refill that adds nothing new brings the recursion
\* back to the list it started from, so the results are those of the
\* refills that add a reaction.
RECURSIVE clean_lists(_, _)
clean_lists(non_fixated_reactions, e) ==
  LET len_before == Len(non_fixated_reactions)
      cleaned == list_of_set(non_fixated_reactions)
      len_after == Len(set_of(non_fixated_reactions))
  IN  IF e # NoEnumerator /\ len_after < len_before
      THEN UNION { clean_lists(l \o drawn, e) :
                     <<l, drawn>> \in
                       { ld \in cleaned \X drawn_lists(e, len_before - len_after) :
                           Len(set_of(ld[1] \o ld[2])) > len_after } }
      ELSE cleaned

\* ReactionLibrary.clean_duplicate_reactions: the libraries it can leave.
\* The variants: without the refill, without the removal, and without the
\* recursive call after the refill.
clean_duplicate_reactions_no_refill(lib) ==
  { [lib EXCEPT !.non_fixated_reactions = l] :
      l \in list_of_set(lib.non_fixated_reactions) }
clean_duplicate_reactions_keep_all(lib) == {lib}
clean_duplicate_reactions_once(lib) ==
  LET len_before == Len(lib.non_fixated_reactions)
      len_after == Len(set_of(lib.non_fixated_reactions))
  IN  { [lib EXCEPT !.non_fixated_reactions = l \o drawn] :
          l \in list_of_set(lib.non_fixated_reactions),
          drawn \in IF lib.enumerator = NoEnumerator THEN { <<>> }
                    ELSE drawn_lists(lib.enumerator, len_before - len_after) }
clean_duplicate_reactions(lib) ==
  { [lib EXCEPT !.non_fixated_reactions = l] :
      l \in clean_lists(lib.non_fixated_reactions, lib.enumerator) }

\* ReactionLibrary.__init__: the fields, then clean_duplicate_reactions.
ReactionLibrary(non_fixated_reactions, num_species, e, fixated_reactions) ==
  clean_duplicate_reactions(
    [fixated_reactions |-> fixated_reactions,
     non_fixated_reactions |-> non_fixated_reactions,
     num_species |-> num_species,
     enumerator |-> e])

\* The swap of crossover: the two libraries after the three assignments.
swap(self, other, place_self, place_other) ==
  LET temp == other.non_fixated_reactions[place_other]
  IN  << [self EXCEPT !.non_fixated_reactions[place_self] = temp],
         [other EXCEPT !.non_fixated_reactions[place_other] =
                          self.non_fixated_reactions[place_self]] >>

\* ReactionLibrary.crossover on two distinct libraries with the two randint
\* results given: the pairs <<self, other>> it can leave.
crossover(self, other, place_self, place_other) ==
  LET swapped == swap(self, other, place_self, place_other)
  IN  clean_duplicate_reactions(swapped[1])
        \X clean_duplicate_reactions(swapped[2])

\* ReactionLibrary.mutate with the randint result and the reaction get_random
\* returned given: the libraries it can leave.
mutate_any_reaction(self, place, new) ==
  clean_duplicate_reactions(
    IF place <= Len(self.fixated_reactions)
    THEN [self EXCEPT !.fixated_reactions[place] = new]
    ELSE [self EXCEPT !.non_fixated_reactions[
                          place - Len(self.fixated_reactions)] = new])
mutate(self, place, new) ==
  clean_duplicate_reactions(
    [self EXCEPT !.non_fixated_reactions[place] = new])

\* ReactionLibrary.clean_slow_reactions: the mutable reactions whose rate
\* is above thresh stay; clean_slow_reactions_not_below keeps those at
\* thresh too.
clean_slow_reactions_not_below(lib, thresh) ==
  [lib EXCEPT !.non_fixated_reactions =
     SelectSeq(@, LAMBDA r : r.rate >= thresh)]
clean_slow_reactions(lib, thresh) ==
  [lib EXCEPT !.non_fixated_reactions =
     SelectSeq(@, LAMBDA r : r.rate > thresh)]

\* fixate_reactions (model_groundtruths.py).  reactions is the list given,
\* items, with the type of its first element, by: indices ("int") or
\* Reaction objects.
fixate_reactions(library, reactions, invert) ==
  IF Len(reactions.items) = 0 THEN library
  ELSE LET old == library.non_fixated_reactions
           temp(idx) ==
             \/ reactions.by = "int" /\ (idx - 1) \in Range(reactions.items)
             \/ /\ reactions.by = "Reaction"
                /\ \E k \in DOMAIN reactions.items :
                     Reaction_eq(old[idx], reactions.items[k])
           moves(idx) == (~ invert /\ temp(idx)) \/ (invert /\ ~ temp(idx))
           pairs == [idx \in DOMAIN old |-> <<idx, old[idx]>>]
           moved == SelectSeq(pairs, LAMBDA p : moves(p[1]))
           stays == SelectSeq(pairs, LAMBDA p : ~ moves(p[1]))
       IN  [library EXCEPT
              !.fixated_reactions =
                 @ \o list([k \in DOMAIN moved |-> moved[k][2]]),
              !.non_fixated_reactions =
                 list([k \in DOMAIN stays |-> stays[k][2]])]

\* The places randint(0, len - 1) can return, as indices from 1.
randint_places(lib) == 1..Len(lib.non_fixated_reactions)

\* How many reactions of a list set() drops.
Duplicates(xs) == Len(xs) - Len(set_of(xs))

(***************************************************************************)
(* SpecLib: two libraries, constructed from explicit reaction lists, and   *)
(* the calls crossover, mutate and clean_duplicate_reactions on them.      *)
(***************************************************************************)
\* The enumerator the libraries of SpecLib may own: one species, one
\* species at most on each side.
LibEnumerator ==
  ReactionEnumerator(1, 1, 1, DefaultMaxStoichiometry, <<>>, <<>>)

\* The rates of the explicit reactions: 0.0, as a drawn reaction has, and a
\* fitted one.
LibRates == {0, 1}

\* The reactions the explicit lists are made of: those of the enumerator,
\* with every rate.
LibReactions ==
  { Reaction(r.reactands, r.products, rate, r.num_species) :
      r \in get_random(LibEnumerator), rate \in LibRates }

LibLists == UNION { [1..n -> LibReactions] : n \in 0..MaxLen }

\* The fixated reactions of library 1; library 2 has none.
LibFixated == << Reaction(<<0>>, <<>>, 1, 1) >>

InitLib ==
  /\ \E l1 \in LibLists, l2 \in LibLists,
        e1 \in {NoEnumerator, LibEnumerator}, e2 \in {NoEnumerator, LibEnumerator} :
       \E lib1 \in ReactionLibrary(l1, 1, e1, LibFixated),
          lib2 \in ReactionLibrary(l2, 1, e2, <<>>) :
         libs = <<lib1, lib2>>
  /\ last_call = [op |-> "construct", self |-> 0, duplicates |-> 0]
  /\ EnumIdle
  /\ EngineIdle
  /\ DriverIdle
  /\ ReactionIdle

\* libs[1].crossover(libs[2]).  randint(0, -1) raises on an empty list
\* before anything is assigned.
Crossover ==
  /\ libs[1].non_fixated_reactions # <<>>
  /\ libs[2].non_fixated_reactions # <<>>
  /\ \E place_self \in randint_places(libs[1]),
        place_other \in randint_places(libs[2]) :
       \E res \in crossover(libs[1], libs[2], place_self, place_other) :
         /\ libs' = <<res[1], res[2]>>
         /\ last_call' =
              [op |-> "crossover", self |-> 1,
               duplicates |->
                 Duplicates(swap(libs[1], libs[2], place_self,
                                 place_other)[1].non_fixated_reactions)]
  /\ UNCHANGED <<enumVars, engVars, drvVars, reacVars>>

\* libs[i].mutate().  Without an enumerator self.enumerator.get_random()
\* raises before anything is assigned.
Mutate(i) ==
  /\ libs[i].non_fixated_reactions # <<>>
  /\ libs[i].enumerator # NoEnumerator
  /\ \E place \in randint_places(libs[i]),
        new \in get_random(libs[i].enumerator) :
       \E res \in mutate(libs[i], place, new) :
         /\ libs' = [libs EXCEPT ![i] = res]
         /\ last_call' =
              [op |-> "mutate", self |-> i,
               duplicates |->
                 Duplicates([libs[i].non_fixated_reactions
                               EXCEPT ![place] = new])]
  /\ UNCHANGED <<enumVars, engVars, drvVars, reacVars>>

\* libs[i].clean_duplicate_reactions(); repeated tells that the call before
\* was the same call on the same library.
CleanDuplicateReactions(i) ==
  /\ \E res \in clean_duplicate_reactions(libs[i]) :
       libs' = [libs EXCEPT ![i] = res]
  /\ last_call' = [op |-> "clean_duplicate_reactions", self |-> i,
                   duplicates |-> Duplicates(libs[i].non_fixated_reactions),
                   repeated |-> /\ last_call.op = "clean_duplicate_reactions"
                                /\ last_call.self = i]
  /\ UNCHANGED <<enumVars, engVars, drvVars, reacVars>>

\* libs[i].clean_slow_reactions(thresh), with the thresholds at the rates
\* of the modelled reactions.
CleanSlowReactions(i) ==
  /\ \E thresh \in LibRates :
       /\ libs' = [libs EXCEPT ![i] = clean_slow_reactions(@, thresh)]
       /\ last_call' =
            [op |-> "clean_slow_reactions", self |-> i, thresh |-> thresh,
             removed |->
               Len(libs[i].non_fixated_reactions)
                 - Len(clean_slow_reactions(libs[i], thresh)
                         .non_fixated_reactions)]
  /\ UNCHANGED <<enumVars, engVars, drvVars, reacVars>>

\* The selections given to fixate_reactions: lists of indices, the empty
\* list among them, and lists of reactions.
IndexSelections ==
  { [by |-> "int", items |-> items] :
      items \in UNION { [1..n -> 0..(MaxLen - 1)] : n \in 0..MaxLen } }
ReactionSelections ==
  { [by |-> "Reaction", items |-> items] :
      items \in UNION { [1..n -> LibReactions] : n \in 1..MaxLen } }

NextLib ==
  \/ Crossover
  \/ \E i \in 1..2 : Mutate(i)
  \/ \E i \in 1..2 : CleanDuplicateReactions(i)
  \/ \E i \in 1..2 : CleanSlowReactions(i)

SpecLib == InitLib /\ [][NextLib]_vars

(***************************************************************************)
(* SpecFixate: fixate_reactions applied once to a fresh copy of a model, a *)
(* library without an enumerator, as its tests apply it.                   *)
(***************************************************************************)
InitFixate ==
  /\ \E l \in LibLists, fixated \in {<<>>, LibFixated} :
       \E lib \in ReactionLibrary(l, 1, NoEnumerator, fixated) :
         libs = <<lib>>
  /\ last_call = [op |-> "construct", self |-> 0, duplicates |-> 0]
  /\ EnumIdle
  /\ EngineIdle
  /\ DriverIdle
  /\ ReactionIdle

\* fixate_reactions(libs[1], reactions, invert) with reactions given.
Fixate(reactions) ==
  \E invert \in BOOLEAN :
    /\ libs' = <<fixate_reactions(libs[1], reactions, invert)>>
    /\ last_call' = [op |-> "fixate_reactions", self |-> 1,
                     reactions |-> reactions, invert |-> invert,
                     before |-> libs[1]]

\* fixate_reactions with a list of indices.
FixateByIndex ==
  /\ last_call.op = "construct"
  /\ \E reactions \in IndexSelections : Fixate(reactions)
  /\ UNCHANGED <<enumVars, engVars, drvVars, reacVars>>

\* fixate_reactions with a list of reactions.
FixateByEquality ==
  /\ last_call.op = "construct"
  /\ \E reactions \in ReactionSelections : Fixate(reactions)
  /\ UNCHANGED <<enumVars, engVars, drvVars, reacVars>>

NextFixate == FixateByIndex \/ FixateByEquality

SpecFixate == InitFixate /\ [][NextFixate]_vars

(***************************************************************************)
(* SpecClean: one call of clean_duplicate_reactions, step by step, on a    *)
(* library with an enumerator whose mutable reactions are at most as many  *)
(* as the enumerator has admissible ones.  The call after the refill is a  *)
(* recursive call: it takes a frame of the interpreter's stack, and the    *)
(* frames are given back only when the innermost call returns.  last_call  *)
(* holds the position of the running call (pc), len_before of its          *)
(* innermost frame and the number of frames on the stack.                  *)
(***************************************************************************)
\* The recursion limit of the interpreter, sys.getrecursionlimit() where
\* nothing has set it; the repository never sets it.
RecursionLimit == 1000

\* The frames on the stack when clean_duplicate_reactions is called: the
\* fewest there can be, the frame of the caller.
CallerFrames == 1

InitClean ==
  /\ \E l \in LibLists :
       /\ Len(l) <= Cardinality(get_random(LibEnumerator))
       /\ libs = << [fixated_reactions |-> <<>>,
                     non_fixated_reactions |-> l,
                     num_species |-> LibEnumerator.num_species,
                     enumerator |-> LibEnumerator] >>
  /\ last_call = [op |-> "clean_duplicate_reactions", self |-> 1,
                  pc |-> "call", len_before |-> 0, frames |-> CallerFrames]
  /\ EnumIdle
  /\ EngineIdle
  /\ DriverIdle
  /\ ReactionIdle

\* The call finds no room for its frame: RecursionError is raised, and
\* nothing in this call chain catches it.
CleanRaise ==
  /\ last_call.pc = "call"
  /\ last_call.frames >= RecursionLimit
  /\ last_call' = [last_call EXCEPT !.pc = "RecursionError"]
  /\ UNCHANGED <<libs, enumVars, engVars, drvVars, reacVars>>

\* The call enters: len_before, list(set(...)), and the test of the refill.
CleanSet ==
  /\ last_call.pc = "call"
  /\ last_call.frames < RecursionLimit
  /\ \E l \in list_of_set(libs[1].non_fixated_reactions) :
       /\ libs' = << [libs[1] EXCEPT !.non_fixated_reactions = l] >>
       /\ last_call' =
            [last_call EXCEPT
               !.frames = @ + 1,
               !.len_before = Len(libs[1].non_fixated_reactions),
               !.pc = IF libs[1].enumerator # NoEnumerator
                         /\ Len(l) < Len(libs[1].non_fixated_reactions)
                      THEN "while" ELSE "return"]
  /\ UNCHANGED <<enumVars, engVars, drvVars, reacVars>>

\* One pass of the while loop, get_random() returning r; when the list is
\* full again the loop is left and the recursive call is made.
CleanAppend(r) ==
  /\ last_call.pc = "while"
  /\ libs' = << [libs[1] EXCEPT !.non_fixated_reactions = Append(@, r)] >>
  /\ last_call' =
       [last_call EXCEPT
          !.pc = IF Len(libs[1].non_fixated_reactions) + 1 < last_call.len_before
                 THEN "while" ELSE "call"]
  /\ UNCHANGED <<enumVars, engVars, drvVars, reacVars>>

\* The innermost call returns, and with it every call that waits for it.
CleanReturn ==
  /\ last_call.pc = "return"
  /\ last_call' = [last_call EXCEPT !.pc = "done", !.frames = CallerFrames]
  /\ UNCHANGED <<libs, enumVars, engVars, drvVars, reacVars>>

NextClean ==
  \/ CleanRaise
  \/ CleanSet
  \/ \E r \in get_random(LibEnumerator) : CleanAppend(r)
  \/ CleanReturn

SpecClean == InitClean /\ [][NextClean]_vars

\* Fair random draws: the call goes on while it can, and a reaction that
\* get_random() can return again and again is returned again and again.
SpecCleanFair ==
  /\ SpecClean
  /\ WF_vars(NextClean)
  /\ \A r \in get_random(LibEnumerator) : SF_vars(CleanAppend(r))

(***************************************************************************)
(* Claims about the library.                                               *)
(***************************************************************************)
NoDuplicates(lib) ==
  \A i \in DOMAIN lib.non_fixated_reactions :
    \A j \in DOMAIN lib.non_fixated_reactions :
      i # j => ~ Reaction_eq(lib.non_fixated_reactions[i],
                             lib.non_fixated_reactions[j])

\* C1 as stated: a crossover or mutate call leaves every library with as
\* many non-fixated reactions as it had before the call.
C1_LengthKeptByEveryLibrary ==
  [][last_call'.op \in {"crossover", "mutate"} =>
       \A i \in 1..2 :
         Len(libs'[i].non_fixated_reactions)
           = Len(libs[i].non_fixated_reactions)]_vars

\* C1 amended: a crossover or mutate call leaves every library that has an
\* enumerator with as many non-fixated reactions as it had before the call.
C1_LengthKeptWithEnumerator ==
  [][last_call'.op \in {"crossover", "mutate"} =>
       \A i \in 1..2 :
         libs[i].enumerator # NoEnumerator =>
           Len(libs'[i].non_fixated_reactions)
             = Len(libs[i].non_fixated_reactions)]_vars

\* A crossover gave a library with an enumerator a reaction it already
\* had, and the library is back at two reactions.
C1_Witness ==
  /\ last_call.op = "crossover"
  /\ last_call.duplicates > 0
  /\ libs[last_call.self].enumerator # NoEnumerator
  /\ Len(libs[last_call.self].non_fixated_reactions) = 2

\* C2: after construction every library, and after a crossover or mutate
\* call every library the call worked on, has no two non-fixated reactions
\* that are equal (__eq__: reactands, products, rate, num_species).
C2_NoDuplicateReactions ==
  /\ last_call.op = "construct" => \A i \in 1..2 : NoDuplicates(libs[i])
  /\ last_call.op = "crossover" =>
       NoDuplicates(libs[1]) /\ NoDuplicates(libs[2])
  /\ last_call.op = "mutate" => NoDuplicates(libs[last_call.self])

\* A mutation drew a reaction the library already had.
C2_Witness ==
  /\ last_call.op = "mutate"
  /\ last_call.duplicates > 0
  /\ Len(libs[last_call.self].non_fixated_reactions) = 2

\* C7: crossover, mutate and clean_duplicate_reactions leave the fixated
\* reactions of every library as they were.
C7_FixatedUntouched ==
  [][last_call'.op \in {"crossover", "mutate", "clean_duplicate_reactions"} =>
       \A i \in 1..2 :
         libs'[i].fixated_reactions = libs[i].fixated_reactions]_vars

\* A crossover on the library with a fixated reaction left it with a
\* non-fixated reaction equal to the fixated one.
C7_Witness ==
  /\ last_call.op = "crossover"
  /\ last_call.self = 1
  /\ libs[1].fixated_reactions = LibFixated
  /\ \E k \in DOMAIN libs[1].non_fixated_reactions :
       Reaction_eq(libs[1].non_fixated_reactions[k], LibFixated[1])

\* The places of xs whose reaction is faster than t, and the k-th of them.
FasterThan(xs, t) == {i \in DOMAIN xs : xs[i].rate > t}
KthOf(places, k) ==
  CHOOSE i \in places : Cardinality({j \in places : j <= i}) = k

AtPlaces(xs, places) ==
  [k \in 1..Cardinality(places) |-> xs[KthOf(places, k)]]

\* The places of the mutable reactions of library that the list reactions
\* selects, by index (from 0) or by equality.
SelectedPlaces(library, reactions) ==
  { idx \in DOMAIN library.non_fixated_reactions :
      IF reactions.by = "int"
      THEN \E k \in DOMAIN reactions.items : reactions.items[k] = idx - 1
      ELSE \E k \in DOMAIN reactions.items :
             reactions.items[k] = library.non_fixated_reactions[idx] }

\* C20 as claimed: on a library without fixated reactions fixate_reactions
\* makes the selected mutable reactions, with invert=True the others, the
\* fixated ones, in their order, and leaves the rest mutable, in their
\* order.
C20_SelectedReactionsFixated ==
  (last_call.op = "fixate_reactions"
     /\ last_call.before.fixated_reactions = <<>>)
  => LET old == last_call.before.non_fixated_reactions
         selected == SelectedPlaces(last_call.before, last_call.reactions)
         moved == IF last_call.invert THEN DOMAIN old \ selected
                  ELSE selected
     IN  /\ libs[1].fixated_reactions = AtPlaces(old, moved)
         /\ libs[1].non_fixated_reactions
              = AtPlaces(old, DOMAIN old \ moved)

\* C21 as claimed: on a library without fixated reactions, the call made
\* and the call with the same selection and the other value of invert give
\* complementary libraries: what one fixates the other leaves mutable, for
\* every selection, the empty one included.
C21_InversionIsComplement ==
  (last_call.op = "fixate_reactions"
     /\ last_call.before.fixated_reactions = <<>>)
  => LET other == fixate_reactions(last_call.before, last_call.reactions,
                                   ~ last_call.invert)
     IN  /\ libs[1].fixated_reactions = other.non_fixated_reactions
         /\ libs[1].non_fixated_reactions = other.fixated_reactions

\* C24 as claimed: under fair draws clean_duplicate_reactions ends, with a
\* library of the size it had and without duplicates.
C24_CleanTerminates ==
  <>(/\ last_call.pc = "done"
     /\ NoDuplicates(libs[1])
     /\ Len(libs[1].non_fixated_reactions) = last_call.len_before)

\* The same reactions, each as often, in whatever order.
SameReactions(xs, ys) ==
  /\ Len(xs) = Len(ys)
  /\ \A r \in Range(xs) \cup Range(ys) :
       Cardinality({i \in DOMAIN xs : xs[i] = r})
         = Cardinality({i \in DOMAIN ys : ys[i] = r})

\* C17: clean_duplicate_reactions called again right after itself on the
\* same genome finds no duplicate, so it removes and draws nothing, and the
\* genome holds the same mutable reactions as before (the list is rebuilt
\* from a set, so their order is that of the set) and the same fixated ones.
C17_CleanIsIdempotent ==
  [][ \A i \in 1..2 :
        ( /\ last_call'.op = "clean_duplicate_reactions"
          /\ last_call'.self = i
          /\ last_call'.repeated )
        => /\ last_call'.duplicates = 0
           /\ SameReactions(libs'[i].non_fixated_reactions,
                            libs[i].non_fixated_reactions)
           /\ libs'[i].fixated_reactions = libs[i].fixated_reactions ]_vars

\* A genome with an enumerator and as many mutable reactions as the lists
\* allow has been cleaned twice in a row.
C17_Witness ==
  /\ last_call.op = "clean_duplicate_reactions"
  /\ last_call.repeated
  /\ libs[last_call.self].enumerator # NoEnumerator
  /\ Len(libs[last_call.self].non_fixated_reactions) = MaxLen


(***************************************************************************)
(* EvolvingLibraries (evolution/evolve_libraries.py).  Genomes are objects *)
(* on a heap; population, fittest, overall_fittest, parents and new_pop    *)
(* hold references, so that a copy and an alias are different things.      *)
(***************************************************************************)
MaxScore == 1        \* the oracle's scores are 0..MaxScore

NegInf == -1         \* float("-inf"), below every score
Inf == 99            \* float("inf"), above every norm

\* copy.deepcopy of the object at ref: a fresh object with the same value.
\* deepcopy_alias is the plain assignment, which copies nothing.
deepcopy_alias(h, ref) == [heap |-> h, ref |-> ref]
deepcopy(h, ref) == [heap |-> Append(h, h[ref]), ref |-> Len(h) + 1]

\* The references a sequence of roots holds, each once, in order of first
\* appearance (0 is None).
live_refs(roots) ==
  LET keep == SelectSeq([i \in DOMAIN roots |-> <<i, roots[i]>>],
                LAMBDA p : p[2] # 0 /\ \A j \in 1..(p[1] - 1) : roots[j] # p[2])
  IN  list([k \in DOMAIN keep |-> keep[k][2]])

\* The engine object: the attributes of self and the locals of a running
\* step.
Self ==
  [heap |-> heap, population |-> population, fittest |-> fittest,
   overall_fittest |-> overall_fittest,
   overall_fittest_value |-> overall_fittest_value,
   overall_fittest_norm |-> overall_fittest_norm,
   parents |-> parents, new_pop |-> new_pop, pc |-> pc]

\* Objects no reference reaches are garbage: self with the heap of the
\* reachable objects only, every reference renamed accordingly.
collect(self) ==
  LET live == live_refs(self.population
                          \o <<self.fittest, self.overall_fittest>>
                          \o self.parents \o self.new_pop)
      name(r) == IF r = 0 THEN 0 ELSE CHOOSE k \in DOMAIN live : live[k] = r
  IN  [self EXCEPT
         !.heap = list([k \in DOMAIN live |-> self.heap[live[k]]]),
         !.population = list([i \in DOMAIN @ |-> name(@[i])]),
         !.fittest = name(@),
         !.overall_fittest = name(@),
         !.parents = list([i \in DOMAIN @ |-> name(@[i])]),
         !.new_pop = list([i \in DOMAIN @ |-> name(@[i])])]

\* The engine object becomes self.
Becomes(self) ==
  /\ heap' = self.heap
  /\ population' = self.population
  /\ fittest' = self.fittest
  /\ overall_fittest' = self.overall_fittest
  /\ overall_fittest_value' = self.overall_fittest_value
  /\ overall_fittest_norm' = self.overall_fittest_norm
  /\ parents' = self.parents
  /\ new_pop' = self.new_pop
  /\ pc' = self.pc

\* The fixated reaction and the enumerator of the modelled runs: one species,
\* at most one reactand and two products, the fixated reaction blacklisted.
EngineFixated == << Reaction(<<0>>, <<0, 0>>, 1, 1) >>
EngineEnumerator ==
  ReactionEnumerator(1, 1, 2, EngineMaxStoichiometry,
                     [i \in DOMAIN EngineFixated |->
                        <<EngineFixated[i].reactands,
                          EngineFixated[i].products>>],
                     <<>>)

\* The constructor arguments of the modelled runs.
EngineArgs ==
  { [num_reactions |-> nc[1], co_points |-> nc[2], pop_size |-> ps,
     n_parents |-> np, rs_mode |-> rs] :
      nc \in { <<1, 0>>, <<1, 1>>, <<2, 1>> }, ps \in {2, 3, 4},
      np \in {2, 5}, rs \in BOOLEAN }

\* The two tests of __init__ that end the process with exit(-1); both spare
\* the random-search mode, config_error_any_mode is the test that does not.
config_error_any_mode(a) ==
  a.n_parents > a.pop_size \/ a.co_points >= a.num_reactions
config_error(a) ==
  \/ a.n_parents > a.pop_size /\ ~a.rs_mode
  \/ a.co_points >= a.num_reactions /\ ~a.rs_mode

\* init_population: the populations it can build, as genome values.
init_population(a) ==
  [1..a.pop_size ->
     UNION { ReactionLibrary(drawn, EngineEnumerator.num_species,
                             EngineEnumerator, EngineFixated) :
               drawn \in drawn_lists(EngineEnumerator, a.num_reactions) }]

NoEvaluation == [score |-> NegInf, norm |-> Inf, member |-> None]

InitEngine ==
  /\ args \in EngineArgs
  /\ pc = "new"
  /\ pool = FALSE
  /\ heap = <<>>
  /\ population = <<>>
  /\ fittest = 0
  /\ overall_fittest = 0
  /\ overall_fittest_value = NegInf
  /\ overall_fittest_norm = Inf
  /\ parents = <<>>
  /\ new_pop = <<>>
  /\ best_of_gen = NoEvaluation
  /\ best_so_far = NoEvaluation
  /\ EnumIdle
  /\ LibIdle
  /\ DriverIdle
  /\ ReactionIdle

\* The assertion that ends __init__: pop_size > 3.  assert_from_three is
\* the assertion that lets a population of three pass.
assert_from_three(a) == a.pop_size >= 3
assert_pop_size(a) == a.pop_size > 3

\* EvolvingLibraries.__init__: exit(-1) on a configuration error, else the
\* pool, the initial population and the assertion on pop_size.
Construct ==
  /\ pc = "new"
  /\ IF config_error(args)
     THEN /\ pc' = "exit"
          /\ UNCHANGED <<pool, heap, population>>
     ELSE /\ pool' = TRUE
          /\ \E pop \in init_population(args) :
               /\ heap' = pop
               /\ population' = [i \in 1..args.pop_size |-> i]
          /\ pc' = IF assert_pop_size(args) THEN "ready" ELSE "assert"
  /\ UNCHANGED <<args, fittest, overall_fittest, overall_fittest_value,
                 overall_fittest_norm, parents, new_pop, best_of_gen,
                 best_so_far, enumVars, libVars, reacVars, drvVars>>


\* What the regression can find for one member: a score, and a rate that
\* every coefficient takes: zero (no reaction is active) or positive.  With
\* every coefficient zero the model predicts no change at all, and r2_score
\* is then at its lowest.
Fits == { fit \in [score : 0..MaxScore, rate : {0, 1}] :
            fit.rate = 0 => fit.score = 0 }

\* Res.norm: with no penalty the norm of the residual falls as r2_score
\* rises, both being computed from the same residual.
norm_of(score) == MaxScore - score

\* CoupledSINDy(member).optimize(), with what the regression finds given:
\* the Res object, one coefficient per reaction of the library.
optimize(member, fit) ==
  [r2_score |-> fit.score,
   norm |-> norm_of(fit.score),
   coef |-> list([idx \in DOMAIN member.non_fixated_reactions |-> fit.rate])]

\* EvolvingLibraries.get_fitness on the worker's copy of member, with no
\* penalty function: score, norm and the member with its rates set.
get_fitness(member, fit) ==
  LET res == optimize(member, fit)
  IN  [score |-> res.r2_score,
       norm |-> res.norm,
       member |-> [member EXCEPT !.non_fixated_reactions =
                     list([idx \in DOMAIN @ |->
                             [@[idx] EXCEPT !.rate = res.coef[idx]]])]]

\* sorted(fitness_list, key=score, reverse=True): stable, so entries of equal
\* score keep the order of fitness_list.  sorted_ascending is the sort
\* without reverse=True.
sorted_ascending(fitness_list) ==
  SortSeq(fitness_list, LAMBDA x, y : x.score < y.score)
sorted_reverse(fitness_list) ==
  SortSeq(fitness_list, LAMBDA x, y : x.score > y.score)

\* The test of step that replaces the overall fittest: strictly greater.
\* improves_always and improves_or_ties are the tests that also replace it
\* on a lower and on an equal score.
improves_always(score, value) == TRUE
improves_or_ties(score, value) == score >= value
improves(score, value) == score > value

\* The loop of step that sets every rate of the new member to 0.0.
reset_rates(member) ==
  [member EXCEPT !.non_fixated_reactions =
     list([idx \in DOMAIN @ |-> [@[idx] EXCEPT !.rate = 0]])]

\* member.crossover(member2) on the objects at r1 and r2: the heaps it can
\* leave.  When both references name one object the swap exchanges two of
\* its own reactions and the object is cleaned twice.
crossover_objects(h, r1, r2) ==
  IF r1 # r2
  THEN { [h EXCEPT ![r1] = res[1], ![r2] = res[2]] :
           res \in UNION { crossover(h[r1], h[r2], place_self, place_other) :
                             place_self \in randint_places(h[r1]),
                             place_other \in randint_places(h[r2]) } }
  ELSE { [h EXCEPT ![r1] = res] :
           res \in UNION { UNION { clean_duplicate_reactions(once) :
                     once \in clean_duplicate_reactions(
                       [h[r1] EXCEPT
                          !.non_fixated_reactions[pl[2]] =
                             h[r1].non_fixated_reactions[pl[1]],
                          !.non_fixated_reactions[pl[1]] =
                             h[r1].non_fixated_reactions[pl[2]]]) } :
                   pl \in randint_places(h[r1]) \X randint_places(h[r1]) } }

\* for _ in range(co_points): member.crossover(member2)
RECURSIVE crossover_times(_, _, _, _)
crossover_times(hs, r1, r2, co_points) ==
  IF co_points = 0
  THEN hs
  ELSE crossover_times(UNION { crossover_objects(h, r1, r2) : h \in hs },
                       r1, r2, co_points - 1)

\* The best evaluation of a generation: the first entry of fitness_list that
\* no other entry beats.
best_of(fitness_list) ==
  fitness_list[CHOOSE i \in DOMAIN fitness_list :
     /\ \A j \in DOMAIN fitness_list :
          fitness_list[j].score <= fitness_list[i].score
     /\ \A j \in 1..(i - 1) : fitness_list[j].score < fitness_list[i].score]


\* pool.map(get_fitness, population): one result per member, in the order
\* of the population, computed on copies of the members.
pool_map(self, fit) ==
  list([i \in DOMAIN self.population |->
          get_fitness(self.heap[self.population[i]], fit[i])])

\* EvolvingLibraries.step from the results of pool.map up to the choice
\* between random search and breeding: the results are fresh objects; the
\* sort; fittest and overall fittest; then elitism and the choice of the
\* parents, unless the engine is in random-search mode.  The breeding loop
\* never reads self.population, which is replaced when the loop is over, so
\* the old population is let go here already.
step(self, a, results) ==
  LET h1 == self.heap \o [i \in DOMAIN results |-> results[i].member]
      fitness_list ==
        list([i \in DOMAIN results |->
                [results[i] EXCEPT !.member = Len(self.heap) + i]])
      fitness_sorted == sorted_reverse(fitness_list)
      c1 == deepcopy(h1, fitness_sorted[1].member)
      improved == improves(fitness_sorted[1].score,
                           self.overall_fittest_value)
      c2 == IF improved
            THEN deepcopy(c1.heap, c1.ref)
            ELSE [heap |-> c1.heap, ref |-> self.overall_fittest]
      c3 == deepcopy(c2.heap, fitness_sorted[1].member)
      updated ==
        [self EXCEPT
           !.fittest = c1.ref,
           !.overall_fittest = c2.ref,
           !.overall_fittest_value =
              IF improved THEN fitness_sorted[1].score ELSE @,
           !.overall_fittest_norm =
              IF improved THEN fitness_sorted[1].norm ELSE @]
  IN  collect(IF a.rs_mode
              THEN [updated EXCEPT !.heap = c2.heap, !.pc = "random"]
              ELSE [updated EXCEPT
                      !.heap = c3.heap,
                      !.population = <<>>,
                      !.new_pop = <<c3.ref>>,
                      !.parents = list([idx \in 1..a.n_parents |->
                                          fitness_sorted[idx].member]),
                      !.pc = "breed"])

\* The random-search branch of step with the new random population given:
\* a copy of the overall fittest takes its first place, and step returns.
random_search(self, pop) ==
  LET h3 == self.heap \o pop
      fresh == list([i \in DOMAIN pop |-> Len(self.heap) + i])
      c3 == deepcopy(h3, self.overall_fittest)
  IN  collect([self EXCEPT !.heap = c3.heap,
                           !.population = [fresh EXCEPT ![1] = c3.ref],
                           !.pc = "ready"])

\* The end of one pass of the breeding loop: the rates of member are reset,
\* member joins new_pop, and after the last pass new_pop becomes the
\* population and step returns.
add_member(self, a, h, member) ==
  LET h2 == [h EXCEPT ![member] = reset_rates(@)]
      grown == Append(self.new_pop, member)
  IN  collect(IF Len(grown) = a.pop_size
              THEN [self EXCEPT !.heap = h2, !.population = grown,
                                !.parents = <<>>, !.new_pop = <<>>,
                                !.pc = "ready"]
              ELSE [self EXCEPT !.heap = h2, !.new_pop = grown])

\* One pass of the breeding loop with repro_choice 0 and the two parents
\* chosen: copies of them, crossed over co_points times.
crossover_pass(self, a, k1, k2) ==
  LET member == deepcopy(self.heap, self.parents[k1])
      member2 == deepcopy(member.heap, self.parents[k2])
  IN  { add_member(self, a, h, member.ref) :
          h \in crossover_times({member2.heap}, member.ref, member2.ref,
                                a.co_points) }

\* One pass of the breeding loop with repro_choice 1 and the parent chosen:
\* a copy of it, mutated.
mutation_pass(self, a, k) ==
  LET member == deepcopy(self.heap, self.parents[k])
      before == member.heap[member.ref]
  IN  { add_member(self, a, [member.heap EXCEPT ![member.ref] = after],
                   member.ref) :
          after \in UNION { mutate(before, place, new) :
                              place \in randint_places(before),
                              new \in get_random(EngineEnumerator) } }

\* pool.map when get_fitness raises in the task of member k: the workers
\* have set rates on their copies only, none of which comes back, and map
\* raises the exception in the caller.  map_raises_in_process is the map
\* run by the engine's own process, get_fitness writing the rates it found,
\* fit, to the members before member k themselves.
map_raises_in_process(self, fit, k) ==
  [self EXCEPT !.heap =
     list([r \in DOMAIN @ |->
             IF \E i \in 1..(k - 1) : self.population[i] = r
             THEN get_fitness(@[r], fit).member
             ELSE @[r]])]
map_raises(self, fit, k) == self

\* step with a fitness evaluation that raises: nothing in step catches the
\* exception, which leaves step at the call of pool.map.
StepRaises ==
  /\ pc = "ready"
  /\ \E fit \in Fits, k \in DOMAIN population :
       \E self \in {map_raises(Self, fit, k)} :
         Becomes([self EXCEPT !.pc = "raised"])
  /\ UNCHANGED <<args, pool, best_of_gen, best_so_far, enumVars, libVars,
                 reacVars, drvVars>>

Step ==
  /\ pc = "ready"
  /\ \E fit \in [DOMAIN population -> Fits] :
       \E results \in {pool_map(Self, fit)} :
         /\ \E self \in {step(Self, args, results)} : Becomes(self)
         /\ best_of_gen' = best_of(results)
         /\ best_so_far' = IF best_of(results).score > best_so_far.score
                           THEN best_of(results) ELSE best_so_far
  /\ UNCHANGED <<args, pool, enumVars, libVars, reacVars, drvVars>>

RandomSearch ==
  /\ pc = "random"
  /\ \E pop \in init_population(args) :
       \E self \in {random_search(Self, pop)} : Becomes(self)
  /\ UNCHANGED <<args, pool, best_of_gen, best_so_far, enumVars, libVars, reacVars, drvVars>>

BreedCrossover ==
  /\ pc = "breed"
  /\ \E k1 \in DOMAIN parents, k2 \in DOMAIN parents :
       \E self \in crossover_pass(Self, args, k1, k2) : Becomes(self)
  /\ UNCHANGED <<args, pool, best_of_gen, best_so_far, enumVars, libVars, reacVars, drvVars>>

BreedMutate ==
  /\ pc = "breed"
  /\ \E k \in DOMAIN parents :
       \E self \in mutation_pass(Self, args, k) : Becomes(self)
  /\ UNCHANGED <<args, pool, best_of_gen, best_so_far, enumVars, libVars, reacVars, drvVars>>

Next ==
  \/ Construct
  \/ Step
  \/ StepRaises
  \/ RandomSearch
  \/ BreedCrossover
  \/ BreedMutate

Spec == InitEngine /\ [][Next]_vars


(***************************************************************************)
(* SpecOracle: the engine with a deterministic fitness oracle: what the    *)
(* regression finds is a function of the set of reactions of the member,   *)
(* whatever their rates and places.  The oracle is given with the          *)
(* arguments of the run; curr_fittest is the first value step returned.    *)
(***************************************************************************)
\* The reactions of a member as the oracle sees them: reactands and
\* products of the mutable reactions, as a set (the fixated reactions are
\* the same in every member).
structures(member) ==
  { <<member.non_fixated_reactions[i].reactands,
      member.non_fixated_reactions[i].products>> :
      i \in DOMAIN member.non_fixated_reactions }

\* The deterministic oracles: one result for every non-empty set of
\* reactions of the enumerator.
Oracles ==
  [ (SUBSET { <<r.reactands, r.products>> :
                r \in get_random(EngineEnumerator) }) \ {{}} -> Fits ]

InitOracle ==
  /\ \E a \in EngineArgs, oracle \in Oracles :
       /\ ~ config_error(a)
       /\ args = [num_reactions |-> a.num_reactions,
                  co_points |-> a.co_points, pop_size |-> a.pop_size,
                  n_parents |-> a.n_parents, rs_mode |-> a.rs_mode,
                  oracle |-> oracle]
  /\ pc = "new"
  /\ pool = FALSE
  /\ heap = <<>>
  /\ population = <<>>
  /\ fittest = 0
  /\ overall_fittest = 0
  /\ overall_fittest_value = NegInf
  /\ overall_fittest_norm = Inf
  /\ parents = <<>>
  /\ new_pop = <<>>
  /\ best_of_gen = NoEvaluation
  /\ best_so_far = NoEvaluation
  /\ EnumIdle
  /\ LibIdle
  /\ DriverIdle
  /\ ReactionIdle

\* step, every evaluation being the oracle's; the caller keeps the first
\* value step returns, fitness_sorted[0][0].
StepDeterministic ==
  /\ pc = "ready"
  /\ \E results \in
         {pool_map(Self, [i \in DOMAIN population |->
                            args.oracle[structures(heap[population[i]])]])} :
       /\ \E self \in {step(Self, args, results)} : Becomes(self)
       /\ best_of_gen' = best_of(results)
       /\ best_so_far' = IF best_of(results).score > best_so_far.score
                         THEN best_of(results) ELSE best_so_far
       /\ curr_fittest' = sorted_reverse(results)[1].score
  /\ UNCHANGED <<args, pool, enumVars, libVars, reacVars, finished,
                 map_returned, opt_args, opt_pc, s, file, file_at_start,
                 kill_now, kill_gen, kill_at, step_calls>>

NextOracle ==
  \/ Construct
  \/ StepDeterministic
  \/ RandomSearch
  \/ BreedCrossover
  \/ BreedMutate

SpecOracle == InitOracle /\ [][NextOracle]_vars

(***************************************************************************)
(* Claims about the engine.  best_of_gen and best_so_far observe the       *)
(* evaluations: the first best result of the last generation, and the      *)
(* earliest best result of all generations, as genome values.              *)
(***************************************************************************)
ConfigRejected ==
  ~ args.rs_mode /\ (\/ args.n_parents > args.pop_size
                     \/ args.co_points >= args.num_reactions)

\* C9: once the constructor has run, it has ended in exit(-1) exactly when
\* the engine is in evolutionary mode and n_parents > pop_size or
\* co_points >= num_reactions; and after that exit no worker pool exists and
\* no population has been initialised.
C9_ConfigErrorsAreFatalEarly ==
  pc # "new" =>
    /\ pc = "exit" <=> ConfigRejected
    /\ pc = "exit" => ~ pool /\ population = <<>> /\ heap = <<>>

\* The constructor left with exit(-1) for co_points >= num_reactions alone.
C9_Witness ==
  /\ pc = "exit"
  /\ args.co_points >= args.num_reactions
  /\ args.n_parents <= args.pop_size

\* C3: in evolutionary mode, when a step has returned, slot 0 of the
\* population holds the first best genome of the generation just evaluated,
\* with the reactions and the rates the evaluation returned.
C3_ElitismKeepsTheBest ==
  (pc = "ready" /\ ~ args.rs_mode /\ best_of_gen.score # NegInf) =>
    heap[population[1]] = best_of_gen.member

\* A step has returned in evolutionary mode, the elite carries a rate that
\* is not 0 and the member next to it was bred from it and differs from it.
C3_Witness ==
  /\ pc = "ready" /\ ~ args.rs_mode /\ best_of_gen.score # NegInf
  /\ \E idx \in DOMAIN heap[population[1]].non_fixated_reactions :
       heap[population[1]].non_fixated_reactions[idx].rate # 0
  /\ heap[population[2]] # heap[population[1]]

\* C4: overall_fittest_value never decreases.
C4_BestEverNeverDecreases ==
  [][overall_fittest_value' >= overall_fittest_value]_vars

\* In random-search mode a generation scored below the best so far, and the
\* best so far was kept.
C4_Witness ==
  /\ pc = "ready" /\ args.rs_mode
  /\ best_of_gen.score # NegInf
  /\ best_of_gen.score < overall_fittest_value

\* C5: after any number of steps overall_fittest_value, overall_fittest_norm
\* and the genome overall_fittest refers to are the score, the norm and the
\* genome of the earliest best evaluation of all generations.
C5_BestEverIsTheEarliestMaximum ==
  best_so_far.score # NegInf =>
    /\ overall_fittest_value = best_so_far.score
    /\ overall_fittest_norm = best_so_far.norm
    /\ overall_fittest # 0
    /\ heap[overall_fittest] = best_so_far.member

\* The last generation tied with the best so far with another genome, and
\* the earlier one is still the overall fittest.
C5_Witness ==
  /\ pc = "ready"
  /\ best_so_far.score # NegInf
  /\ best_of_gen.score = best_so_far.score
  /\ best_of_gen.member # best_so_far.member
  /\ heap[overall_fittest] = best_so_far.member

\* C6: a pass of the breeding loop or the regeneration of the population
\* changes neither the genome fittest refers to nor the genome
\* overall_fittest refers to; and the genome overall_fittest refers to
\* changes only in a step whose best score is greater than
\* overall_fittest_value.
C6_RecordedGenomesAreIndependent ==
  [][/\ (pc \in {"breed", "random"}) =>
          /\ heap'[fittest'] = heap[fittest]
          /\ heap'[overall_fittest'] = heap[overall_fittest]
     /\ (pc = "ready" /\ overall_fittest # 0
           /\ heap'[overall_fittest'] # heap[overall_fittest]) =>
          best_of_gen'.score > overall_fittest_value]_vars

\* A step has returned with a bred member that is not its parent with the
\* rates reset, while fittest and overall fittest are different genomes.
C6_Witness ==
  /\ pc = "ready" /\ ~ args.rs_mode
  /\ fittest # 0 /\ overall_fittest # 0
  /\ heap[fittest] # heap[overall_fittest]
  /\ \E i \in 2..Len(population) :
       /\ heap[population[i]] # reset_rates(heap[fittest])
       /\ heap[population[i]] # reset_rates(heap[overall_fittest])

\* C23: whenever the constructor or a step has returned, in either mode,
\* the population holds pop_size genomes, each with num_reactions mutable
\* reactions.
C23_PopulationKeepsItsShape ==
  pc = "ready" =>
    /\ Len(population) = args.pop_size
    /\ \A i \in DOMAIN population :
         Len(heap[population[i]].non_fixated_reactions) = args.num_reactions

\* A step has returned in random-search mode with two mutable reactions per
\* genome, the copy of the overall fittest, with its fitted rates, in the
\* first place of a fresh population.
C23_Witness ==
  /\ pc = "ready" /\ args.rs_mode /\ overall_fittest # 0
  /\ args.num_reactions = 2
  /\ heap[population[1]] = heap[overall_fittest]
  /\ heap[population[1]].non_fixated_reactions[1].rate # 0

\* C26: a fitness evaluation that raises ends step with the exception, and
\* nothing follows it; the population, the fittest and the overall fittest
\* with its value and norm are then what they were when step was called.
C26_RaisingOracleChangesNothing ==
  [][/\ pc # "raised"
     /\ pc' = "raised" =>
          /\ pc = "ready"
          /\ Len(population') = Len(population)
          /\ \A i \in DOMAIN population :
               heap'[population'[i]] = heap[population[i]]
          /\ (fittest = 0 /\ fittest' = 0)
               \/ (fittest # 0 /\ fittest' # 0
                     /\ heap'[fittest'] = heap[fittest])
          /\ (overall_fittest = 0 /\ overall_fittest' = 0)
               \/ (overall_fittest # 0 /\ overall_fittest' # 0
                     /\ heap'[overall_fittest'] = heap[overall_fittest])
          /\ overall_fittest_value' = overall_fittest_value
          /\ overall_fittest_norm' = overall_fittest_norm]_vars

\* A fitness evaluation has raised in a generation after the first, in
\* evolutionary mode, the population holding the elite with its fitted
\* rates next to bred members whose rates are 0.
C26_Witness ==
  /\ pc = "raised" /\ ~ args.rs_mode
  /\ fittest # 0 /\ overall_fittest # 0
  /\ heap[population[1]].non_fixated_reactions[1].rate # 0
  /\ heap[population[2]].non_fixated_reactions[1].rate = 0

\* C27: with a deterministic oracle the current-fittest score a step
\* returns is the best-ever score it returns, and it is never lower than
\* the one the step before returned.
C27_CurrentIsBestEver ==
  [][/\ fittest' # 0 => curr_fittest' = overall_fittest_value'
     /\ fittest # 0 => curr_fittest' >= curr_fittest]_vars

\* A step has returned in evolutionary mode whose best genome was bred by
\* an earlier step (it holds one reaction twice, which no initial genome
\* does), and the new population holds a member that scores lower with the
\* oracle than this elite.
C27_Witness ==
  /\ pc = "ready" /\ ~ args.rs_mode /\ fittest # 0
  /\ Cardinality(structures(heap[population[1]])) < args.num_reactions
  /\ \E i \in DOMAIN population :
       args.oracle[structures(heap[population[i]])].score
         < args.oracle[structures(heap[population[1]])].score

\* C30: a constructor called with pop_size <= 3 and arguments that pass
\* the configuration tests, in either mode, ends in the failed assertion,
\* with the worker pool created and the initial population generated; and
\* the assertion fails for no other arguments.
C30_SmallPopulationAsserts ==
  pc # "new" =>
    /\ (args.pop_size <= 3 /\ ~ ConfigRejected) =>
         /\ pc = "assert"
         /\ pool
         /\ Len(population) = args.pop_size
         /\ \A i \in DOMAIN population :
              Len(heap[population[i]].non_fixated_reactions)
                = args.num_reactions
    /\ pc = "assert" => args.pop_size <= 3

\* The assertion has failed in evolutionary mode for arguments with
\* n_parents <= pop_size and co_points < num_reactions.
C30_Witness ==
  /\ pc = "assert" /\ ~ args.rs_mode
  /\ args.pop_size = 3
  /\ args.n_parents <= args.pop_size
  /\ args.co_points < args.num_reactions
  /\ pool /\ Len(population) = 3

\* C22 as claimed: in evolutionary mode, when a step has returned, no genome
\* of the population holds two mutable reactions equal in reactands,
\* products, rate and species count.
C22_NewPopulationDuplicateFree ==
  (pc = "ready" /\ ~ args.rs_mode /\ fittest # 0)
    => \A i \in DOMAIN population : NoDuplicates(heap[population[i]])

(***************************************************************************)
(* optimize and GracefulKiller (evolution/evolve_libraries.py), called by  *)
(* the script at the end of that file or by the experiment runner          *)
(* (experiments/model_generation_experiment.py).  The progress file is the *)
(* sequence of its rows, None while it does not exist; a row is modelled   *)
(* by its first three columns.  For the experiment runner the file lies in *)
(* the experiment path, which exists exactly when the file does.           *)
(***************************************************************************)
MaxSteps == 2        \* nsteps of the modelled calls of optimize

Header == "step curr_fittest overall_fittest overall_fittest_norm model"

\* The progress file a prior run of the same name has left.
PriorRun ==
  << Header, [step |-> 0, curr_fittest |-> 0, overall_fittest |-> 0] >>

\* The engines the driver is given: evolutionary and random search.
DriverEngineArgs ==
  { [num_reactions |-> 1, co_points |-> 0, pop_size |-> 4, n_parents |-> 2,
     rs_mode |-> rs] : rs \in BOOLEAN }

\* The calls of optimize: the script passes its GracefulKiller, experiment()
\* passes none.  The default fitness_thresh lies just below the highest
\* score the oracle can return.
OptimizeArgs ==
  { [caller |-> "main", nsteps |-> MaxSteps, fitness_thresh |-> MaxScore,
     killer |-> "killer"],
    [caller |-> "experiment", nsteps |-> MaxSteps,
     fitness_thresh |-> MaxScore, killer |-> None] }

\* The engine when run() of the experiment, or the script, has constructed
\* it.
EngineConstructed ==
  /\ args \in DriverEngineArgs
  /\ pc = "ready"
  /\ pool = TRUE
  /\ \E pop \in init_population(args) :
       /\ heap = pop
       /\ population = [i \in 1..args.pop_size |-> i]
  /\ fittest = 0
  /\ overall_fittest = 0
  /\ overall_fittest_value = NegInf
  /\ overall_fittest_norm = Inf
  /\ parents = <<>>
  /\ new_pop = <<>>
  /\ best_of_gen = NoEvaluation
  /\ best_so_far = NoEvaluation
  /\ EnumIdle
  /\ LibIdle
  /\ ReactionIdle

\* The state when optimize, or run() of the experiment, is called: a
\* GracefulKiller has kill_now = False.
InitDriver ==
  /\ EngineConstructed
  /\ finished = <<>>
  /\ map_returned = <<>>
  /\ opt_args \in OptimizeArgs
  /\ opt_pc = IF opt_args.caller = "experiment" THEN "prepare" ELSE "open"
  /\ s = 0
  /\ curr_fittest = NegInf
  /\ file \in {None, PriorRun}
  /\ file_at_start = file
  /\ kill_now = FALSE
  /\ kill_gen = -1
  /\ kill_at = None
  /\ step_calls = <<>>

\* os.path.exists(self.experiment_path) of _prepare; path_exists_never is
\* the test left out.
path_exists_never(f) == FALSE
path_exists(f) == f # None

\* ModelGenerationExperiment._prepare: exit(-1) when the experiment path
\* exists, else the path is created and experiment() calls optimize.
Prepare ==
  /\ opt_pc = "prepare"
  /\ opt_pc' = IF path_exists(file) THEN "exit" ELSE "open"
  /\ UNCHANGED <<finished, map_returned, opt_args, s, curr_fittest, file, file_at_start,
                 kill_now, kill_gen, kill_at, step_calls, enumVars, libVars, reacVars, engVars>>

\* open(output_filename, "w") and the header row: the file is created, or
\* truncated when it exists.
Open ==
  /\ opt_pc = "open"
  /\ file' = << Header >>
  /\ opt_pc' = "for"
  /\ s' = 0
  /\ UNCHANGED <<finished, map_returned, opt_args, curr_fittest, file_at_start, kill_now,
                 kill_gen, kill_at, step_calls, enumVars, libVars, reacVars, engVars>>

\* The generation that is running, -1 when none is: between the test of
\* kill_now in one pass of the loop and the test in the next.
generation ==
  IF \/ opt_pc \in {"step", "check"}
     \/ opt_pc \in {"open", "for"} /\ s < opt_args.nsteps
  THEN s ELSE -1

\* GracefulKiller.exit_gracefully, the handler of SIGINT and SIGTERM: it
\* can run between any two steps of the driver.
ExitGracefully ==
  /\ opt_args.killer # None
  /\ kill_now' = TRUE
  /\ kill_gen' = IF kill_now THEN kill_gen ELSE generation
  /\ kill_at' = IF kill_now THEN kill_at ELSE pc
  /\ UNCHANGED <<finished, map_returned, opt_args, opt_pc, s, curr_fittest, file,
                 file_at_start, step_calls, enumVars, libVars, reacVars, engVars>>

\* for s in range(nsteps), a further pass: opt.step(s) is called and calls
\* pool.map.  s holds the next value of the range between two passes.
CallStep ==
  /\ opt_pc = "for"
  /\ s < opt_args.nsteps
  /\ pc = "ready"
  /\ opt_pc' = "step"
  /\ pc' = "map"
  /\ finished' = <<>>
  /\ step_calls' = Append(step_calls, s)
  /\ UNCHANGED <<args, pool, heap, population, fittest, overall_fittest,
                 overall_fittest_value, overall_fittest_norm, parents,
                 new_pop, best_of_gen, best_so_far, map_returned, opt_args, s,
                 curr_fittest, file, file_at_start, kill_now, kill_gen, kill_at,
                 kill_at, enumVars, libVars, reacVars>>

\* for s in range(nsteps), the range exhausted: the file is closed.
LoopEnd ==
  /\ opt_pc = "for"
  /\ s >= opt_args.nsteps
  /\ opt_pc' = "done"
  /\ UNCHANGED <<finished, map_returned, opt_args, s, curr_fittest, file, file_at_start,
                 kill_now, kill_gen, kill_at, step_calls, enumVars, libVars, reacVars, engVars>>

\* The first value step returns: fitness_sorted[0][0].
returned(results) == sorted_reverse(results)[1].score

\* step from the call of pool.map to the breeding loop or the random
\* search, the evaluation of the population included.
Evaluate ==
  /\ opt_pc = "step"
  /\ pc = "map"
  /\ \E fit \in [DOMAIN population -> Fits] :
       \E results \in {pool_map(Self, fit)} :
         /\ \E self \in {step(Self, args, results)} : Becomes(self)
         /\ curr_fittest' = returned(results)
         /\ best_of_gen' = best_of(results)
         /\ best_so_far' = IF best_of(results).score > best_so_far.score
                           THEN best_of(results) ELSE best_so_far
  /\ UNCHANGED <<args, pool, finished, map_returned, opt_args, opt_pc, s,
                 file, file_at_start, kill_now, kill_gen, kill_at, step_calls,
                 enumVars, libVars, reacVars>>

\* writer.writerow and file.flush after step has returned.
WriteRow ==
  /\ opt_pc = "step"
  /\ pc = "ready"
  /\ file' = Append(file, [step |-> s, curr_fittest |-> curr_fittest,
                           overall_fittest |-> overall_fittest_value])
  /\ opt_pc' = "check"
  /\ UNCHANGED <<finished, map_returned, opt_args, s, curr_fittest,
                 file_at_start, kill_now, kill_gen, kill_at, step_calls, enumVars,
                 libVars, reacVars, engVars>>

\* curr_fittest >= fitness_thresh; reached_above is the strict test.
reached_above(curr, fitness_thresh) == curr > fitness_thresh
reached(curr, fitness_thresh) == curr >= fitness_thresh

\* killer is not None and killer.kill_now; cancelled_never is the test left
\* out.
cancelled_never(killer, flag) == FALSE
cancelled(killer, flag) == killer # None /\ flag

\* The two tests that end a pass of the loop: break, or the next pass.
Check ==
  /\ opt_pc = "check"
  /\ IF reached(curr_fittest, opt_args.fitness_thresh)
        \/ cancelled(opt_args.killer, kill_now)
     THEN opt_pc' = "done" /\ s' = s
     ELSE opt_pc' = "for" /\ s' = s + 1
  /\ UNCHANGED <<finished, map_returned, opt_args, curr_fittest, file,
                 file_at_start, kill_now, kill_gen, kill_at, step_calls, enumVars,
                 libVars, reacVars, engVars>>

NextDriver ==
  \/ Prepare \/ Open \/ ExitGracefully \/ CallStep \/ LoopEnd \/ Evaluate
  \/ RandomSearch \/ BreedCrossover \/ BreedMutate \/ WriteRow \/ Check

SpecDriver == InitDriver /\ [][NextDriver]_vars

(***************************************************************************)
(* Claims about the driver.                                                *)
(***************************************************************************)
\* The rows of the progress file below its header.
rows == IF file = None THEN <<>> ELSE SubSeq(file, 2, Len(file))

\* C11: when kill_now is set during generation g, at whatever point of it,
\* step is never called for generation g + 1, and when optimize is over
\* step has been called for g and has returned, and the last row of the
\* progress file is the row of g.
C11_CancelledGenerationCompletes ==
  kill_gen >= 0 =>
    /\ Len(step_calls) <= kill_gen + 1
    /\ opt_pc = "done" =>
         /\ step_calls # <<>> /\ step_calls[Len(step_calls)] = kill_gen
         /\ pc = "ready"
         /\ rows # <<>> /\ rows[Len(rows)].step = kill_gen

\* kill_now was set while the evaluations of generation 0 ran, the score of
\* that generation is below the threshold and further generations were
\* allowed, and optimize is over after one row.
C11_Witness ==
  /\ opt_pc = "done"
  /\ kill_gen = 0 /\ kill_at = "map"
  /\ curr_fittest < opt_args.fitness_thresh
  /\ opt_args.nsteps > 1
  /\ Len(rows) = 1

\* C12: step is called for the generations 0, 1, 2, ... in this order; once
\* the file is open it holds one row for every step that has returned, row
\* k carrying step index k; and step is called no more after the first
\* generation whose current-fittest score is at least fitness_thresh, after
\* the generation in which kill_now was set, or after nsteps generations.
C12_StepsInOrderOneRowEach ==
  /\ \A k \in DOMAIN step_calls : step_calls[k] = k - 1
  /\ Len(step_calls) <= opt_args.nsteps
  /\ kill_gen >= 0 => Len(step_calls) <= kill_gen + 1
  /\ opt_pc \in {"for", "step", "check", "done"} =>
       /\ Len(rows) = IF opt_pc = "step" THEN Len(step_calls) - 1
                      ELSE Len(step_calls)
       /\ \A k \in DOMAIN rows :
            /\ rows[k].step = k - 1
            /\ rows[k].curr_fittest >= opt_args.fitness_thresh
                 => Len(step_calls) <= k

\* optimize is over after one generation of several, for the threshold
\* alone: the score of generation 0 has reached it and kill_now is not set.
C12_Witness ==
  /\ opt_pc = "done"
  /\ Len(rows) = 1 /\ rows[1].curr_fittest >= opt_args.fitness_thresh
  /\ ~kill_now
  /\ opt_args.nsteps > 1

\* C13 as claimed: when the progress file exists already, optimize ends
\* with a fatal error before it calls step and the file keeps its content.
C13_ExistingLogIsKept ==
  file_at_start # None => file = file_at_start /\ step_calls = <<>>

\* C13: it is the experiment runner that refuses: when its experiment path
\* exists already the process ends in _prepare; optimize is not called and
\* the progress file of the prior run keeps its content.  Once optimize has
\* opened the file, all its rows are rows of this call.
C13_ExperimentRefusesExistingRun ==
  /\ opt_args.caller = "experiment" /\ file_at_start # None =>
       /\ opt_pc \in {"prepare", "exit"}
       /\ file = file_at_start
       /\ step_calls = <<>>
  /\ opt_pc \in {"for", "step", "check", "done"} =>
       file[1] = Header /\ Len(rows) <= Len(step_calls)

\* The experiment runner has ended the process on an existing run.
C13_Witness ==
  opt_pc = "exit" /\ file_at_start = PriorRun /\ file = PriorRun

(***************************************************************************)
(* SpecPool: one call of optimize with nsteps = 1 and no killer, the       *)
(* workers of pool.map finishing one by one in any order.  Pool.map hands  *)
(* each task to a worker, stores the value of a finished task at the index *)
(* of the task, and returns the list when every task has finished.         *)
(***************************************************************************)
\* What the workers have computed, with order the order in which they
\* finished: imap_unordered lists the values in that order, map_results at
\* the indices of their tasks.
imap_unordered(self, fit, order) ==
  list([k \in DOMAIN order |->
          get_fitness(self.heap[self.population[order[k]]], fit[order[k]])])
map_results(self, fit, order) ==
  LET value(k) ==
        get_fitness(self.heap[self.population[order[k]]], fit[order[k]])
  IN  list([i \in DOMAIN self.population |->
              value(CHOOSE k \in DOMAIN order : order[k] = i)])

InitPool ==
  /\ EngineConstructed
  /\ finished = <<>>
  /\ map_returned = <<>>
  /\ opt_args = [caller |-> "main", nsteps |-> 1,
                 fitness_thresh |-> MaxScore, killer |-> None]
  /\ opt_pc = "open"
  /\ s = 0
  /\ curr_fittest = NegInf
  /\ file = None
  /\ file_at_start = None
  /\ kill_now = FALSE
  /\ kill_gen = -1
  /\ kill_at = None
  /\ step_calls = <<>>

\* The worker of task i finishes.
WorkerFinishes(i) ==
  /\ pc = "map"
  /\ i \notin Range(finished)
  /\ finished' = Append(finished, i)
  /\ UNCHANGED <<map_returned, opt_args, opt_pc, s, curr_fittest, file,
                 file_at_start, kill_now, kill_gen, kill_at, step_calls,
                 enumVars, libVars, reacVars, engVars>>

\* pool.map returns: every task has finished, and fitness_list is bound.
MapReturn ==
  /\ pc = "map"
  /\ Len(finished) = Len(population)
  /\ \E fit \in [DOMAIN population -> Fits] :
       map_returned' = map_results(Self, fit, finished)
  /\ pc' = "results"
  /\ UNCHANGED <<args, pool, heap, population, fittest, overall_fittest,
                 overall_fittest_value, overall_fittest_norm, parents,
                 new_pop, best_of_gen, best_so_far, finished, opt_args,
                 opt_pc, s, curr_fittest, file, file_at_start, kill_now,
                 kill_gen, kill_at, step_calls, enumVars, libVars, reacVars>>

\* step from the sort of fitness_list to the breeding loop or the random
\* search.
SortAndRecord ==
  /\ pc = "results"
  /\ \E self \in {step(Self, args, map_returned)} : Becomes(self)
  /\ curr_fittest' = returned(map_returned)
  /\ best_of_gen' = best_of(map_returned)
  /\ best_so_far' = IF best_of(map_returned).score > best_so_far.score
                    THEN best_of(map_returned) ELSE best_so_far
  /\ map_returned' = <<>>
  /\ finished' = <<>>
  /\ UNCHANGED <<args, pool, opt_args, opt_pc, s, file, file_at_start,
                 kill_now, kill_gen, kill_at, step_calls, enumVars, libVars, reacVars>>

NextPool ==
  \/ Open \/ CallStep \/ LoopEnd
  \/ \E i \in DOMAIN population : WorkerFinishes(i)
  \/ MapReturn \/ SortAndRecord
  \/ RandomSearch \/ BreedCrossover \/ BreedMutate \/ WriteRow \/ Check

SpecPool == InitPool /\ [][NextPool]_vars

\* The reactions of a genome, their rates left aside.
reactions_of(lib) ==
  [i \in DOMAIN lib.non_fixated_reactions |->
     <<lib.non_fixated_reactions[i].reactands,
       lib.non_fixated_reactions[i].products>>]

\* fitness_list holds one triple per member, the i-th with the fitted copy
\* of the i-th member of the population.
Paired ==
  /\ Len(map_returned) = Len(population)
  /\ \A i \in DOMAIN population :
       reactions_of(map_returned[i].member)
         = reactions_of(heap[population[i]])

\* C14: in whatever order the workers finish, the i-th triple step works on
\* is the evaluation of the i-th member of the population; and while
\* pool.map is running step changes neither the population nor the fittest
\* nor the best-ever record, and it goes on only when every task has
\* finished.
C14_ResultsPairedByIndex ==
  [][ /\ pc' = "results" => Paired'
      /\ pc = "map" =>
           /\ UNCHANGED <<heap, population, fittest, overall_fittest,
                          overall_fittest_value, overall_fittest_norm>>
           /\ pc' # "map" => Len(finished) = args.pop_size ]_vars

\* pool.map has returned although the worker of the last task finished
\* first, and the first and the last member differ.
C14_Witness ==
  /\ pc = "results"
  /\ finished[1] = Len(population)
  /\ reactions_of(heap[population[1]])
       # reactions_of(heap[population[Len(population)]])

(***************************************************************************)
(* SpecReaction: two Reaction objects, as the tests construct them from    *)
(* lists of species indices, compared with == and with equal_structure.    *)
(* Here a Reaction carries its species_names as well.                      *)
(***************************************************************************)
\* The lists of at most MaxLen indices of the species 0 and 1.
Sides == UNION { [1..n -> {0, 1}] : n \in 0..MaxLen }

SpeciesNames == { <<"A", "B", "C">>, <<"S", "I", "R">> }

\* Reaction(reactands, products, rate, num_species, species_names=names)
NamedReaction(reactands, products, rate, num_species, names) ==
  [reactands |-> reactands, products |-> products, rate |-> rate,
   num_species |-> num_species, species_names |-> names]

InitReaction ==
  /\ operands \in
       { <<NamedReaction(l1, r1, 1, 2, <<"A", "B", "C">>),
           NamedReaction(l2, r2, rate, num, names)>> :
           l1 \in Sides, r1 \in Sides, l2 \in Sides, r2 \in Sides,
           rate \in {0, 1}, num \in {2, 3}, names \in SpeciesNames }
  /\ verdict = NoVerdict
  /\ EnumIdle
  /\ LibIdle
  /\ EngineIdle
  /\ DriverIdle

\* operands[1] == operands[2], either way round.
Eq ==
  /\ verdict = NoVerdict
  /\ verdict' = [op |-> "==",
                 value |-> Reaction_eq(operands[1], operands[2]),
                 reverse |-> Reaction_eq(operands[2], operands[1])]
  /\ UNCHANGED <<operands, enumVars, libVars, engVars, drvVars>>

\* operands[1].equal_structure(operands[2]), either way round.
EqualStructure ==
  /\ verdict = NoVerdict
  /\ verdict' = [op |-> "equal_structure",
                 value |-> equal_structure(operands[1], operands[2]),
                 reverse |-> equal_structure(operands[2], operands[1])]
  /\ UNCHANGED <<operands, enumVars, libVars, engVars, drvVars>>

NextReaction == Eq \/ EqualStructure

SpecReaction == InitReaction /\ [][NextReaction]_vars

(***************************************************************************)
(* SpecSetters: one Reaction object with its cached vectors _ma and        *)
(* _change, under assignments to its properties reactands and products.    *)
(***************************************************************************)
\* Reaction._update_ma and Reaction._update_change: the caches computed from
\* the fields as they are stored when the method runs.
update_ma(self) ==
  [self EXCEPT !.ma = full_hist(self.reactands, self.num_species)]
update_change(self) ==
  [self EXCEPT !.change =
     [sp \in 0..(self.num_species - 1) |->
        full_hist(self.products, self.num_species)[sp]
          - full_hist(self.reactands, self.num_species)[sp]]]

\* Reaction.__init__: the fields, then the two caches.
CachedReaction(reactands, products, rate, num_species) ==
  update_change(update_ma(
    [reactands |-> reactands, products |-> products, rate |-> rate,
     num_species |-> num_species, ma |-> <<>>, change |-> <<>>]))

InitSetters ==
  /\ \E reactands \in Sides, products \in Sides :
       operands = << CachedReaction(reactands, products, 0, 2) >>
  /\ verdict = [op |-> "__init__"]
  /\ EnumIdle
  /\ LibIdle
  /\ EngineIdle
  /\ DriverIdle

\* operands[1].reactands = reactands: the setter runs _update_ma and
\* _update_change, then stores the value.
SetReactands ==
  /\ \E reactands \in Sides :
       operands' = << [update_change(update_ma(operands[1]))
                         EXCEPT !.reactands = reactands] >>
  /\ verdict' = [op |-> "reactands.setter"]
  /\ UNCHANGED <<enumVars, libVars, engVars, drvVars>>

\* operands[1].products = products: the setter runs _update_change, then
\* stores the value.
SetProducts ==
  /\ \E products \in Sides :
       operands' = << [update_change(operands[1])
                         EXCEPT !.products = products] >>
  /\ verdict' = [op |-> "products.setter"]
  /\ UNCHANGED <<enumVars, libVars, engVars, drvVars>>

NextSetters == SetReactands \/ SetProducts

SpecSetters == InitSetters /\ [][NextSetters]_vars

(***************************************************************************)
(* Claims about Reaction.                                                  *)
(***************************************************************************)
\* C15: a == b holds exactly when a and b have the same reactands, the same
\* products (both as the lists they were constructed from), the same rate
\* and the same num_species, whatever their species names.
C15_EqReadsFourFields ==
  verdict.op = "==" =>
    /\ verdict.value = /\ operands[1].reactands = operands[2].reactands
                       /\ operands[1].products = operands[2].products
                       /\ operands[1].rate = operands[2].rate
                       /\ operands[1].num_species = operands[2].num_species
    /\ verdict.reverse = verdict.value

\* Two reactions that differ in their species names only have compared
\* equal.
C15_Witness ==
  /\ verdict.op = "=="
  /\ verdict.value
  /\ operands[1].species_names # operands[2].species_names
  /\ operands[1].reactands # <<>>

\* The same multiset: every species occurs as often in one list as in the
\* other.
SameSide(xs, ys) == \A sp \in {0, 1} : CountOf(xs, sp) = CountOf(ys, sp)

\* C16 as claimed: equal_structure(a, b) holds exactly when a and b have
\* the same multiset of reactands and the same multiset of products, in
\* whatever order the species were listed.
C16_EqualStructureIgnoresOrder ==
  verdict.op = "equal_structure" =>
    verdict.value = /\ SameSide(operands[1].reactands, operands[2].reactands)
                    /\ SameSide(operands[1].products, operands[2].products)

\* C29 as claimed: after the constructor and after every assignment to
\* reactands or products, the cached multiplicity vector is the histogram of
\* the reactands stored and the cached net-change vector is the histogram
\* of the products stored minus that of the reactands stored.
C29_CachesFollowTheSides ==
  \A i \in DOMAIN operands :
    verdict.op \in {"__init__", "reactands.setter", "products.setter"} =>
      /\ operands[i].ma
           = full_hist(operands[i].reactands, operands[i].num_species)
      /\ \A sp \in 0..(operands[i].num_species - 1) :
           operands[i].change[sp]
             = CountOf(operands[i].products, sp)
                 - CountOf(operands[i].reactands, sp)

=============================================================================
